---- MODULE Spec2Model ----
(***************************************************************************)
(* A model of html5validator's Validator (src/html5validator/validator.py). *)
(*                                                                         *)
(* Text is modelled character by character: a string is a sequence of     *)
(* one-character strings, so that substring tests, regular-expression     *)
(* search, quote normalisation, glob matching and JSON encoding are       *)
(* computed as the code computes them.  The two typographic double quotes *)
(* U+201C and U+201D are the characters LDQ and RDQ.                      *)
(*                                                                         *)
(* The text on the child process's error stream is the sequence of its    *)
(* newline-terminated lines (the JVM and the checker print whole lines).  *)
(*                                                                         *)
(* Two specifications share the module: Spec drives validate and          *)
(* get_messages of one Validator, SpecFiles drives all_files over a       *)
(* directory tree.                                                        *)
(*                                                                         *)
(* Left out: the cygwin path conversion (sys.platform is not cygwin), the *)
(* logging calls, and the dead except subprocess.CalledProcessError       *)
(* clause (Popen and communicate never raise it).  os.walk lists each     *)
(* directory in the order Listing gives.                                  *)
(***************************************************************************)
EXTENDS Integers, Sequences, FiniteSets, TLC

VARIABLES
    \* the Validator object (validator.py:57-67)
    ignore, ignore_re, format, errors_only, detect_language, stack_size, vnu_args,
    \* the constructor's ignore / ignore_re arguments, as the caller wrote them
    ignoreArg, ignoreReArg,
    \* the interpreter: whether the os module exposes os.errno
    osHasErrno,
    \* the call in progress or just returned
    pc, op, callFiles, preamble, launch, cmd, engineStderr, stderrRet, e0, lines, result,
    \* all_files: its arguments, the pending os.walk frames and the result so far
    wpc, directory, match, blacklist, skip_invisible, walkStack, visited, files

validatorVars ==
    <<ignore, ignore_re, format, errors_only, detect_language, stack_size, vnu_args,
      ignoreArg, ignoreReArg, osHasErrno,
      pc, op, callFiles, preamble, launch, cmd, engineStderr, stderrRet, e0, lines, result>>

filesVars ==
    <<wpc, directory, match, blacklist, skip_invisible, walkStack, visited, files>>

vars == <<validatorVars, filesVars>>

-----------------------------------------------------------------------------
(* Characters and strings *)

\* U+201C LEFT DOUBLE QUOTATION MARK
LDQ == "LDQ"

\* U+201D RIGHT DOUBLE QUOTATION MARK
RDQ == "RDQ"

\* the ASCII double quote
DQ == "\""

None == "None"

\* s1 in s2 (Python's substring test)
Contains(l, s) ==
    \E i \in 1..(Len(l) - Len(s) + 1) : \A k \in 1..Len(s) : l[i + k - 1] = s[k]

\* l.startswith(s)
StartsWith(l, s) ==
    Len(s) <= Len(l) /\ \A k \in 1..Len(s) : l[k] = s[k]

RECURSIVE Flatten(_)
Flatten(ss) ==
    IF ss = <<>> THEN <<>> ELSE Head(ss) \o Flatten(Tail(ss))

-----------------------------------------------------------------------------
(* Module-level constants, validator.py:17-31 *)

\* \ADocument checking completed. No errors found.*
DEFAULT_IGNORE_RE_1 ==
    <<"\\", "A", "D", "o", "c", "u", "m", "e", "n", "t", " ", "c", "h", "e", "c", "k", "i",
      "n", "g", " ", "c", "o", "m", "p", "l", "e", "t", "e", "d", ".", " ", "N", "o", " ",
      "e", "r", "r", "o", "r", "s", " ", "f", "o", "u", "n", "d", ".", "*">>

DEFAULT_IGNORE_RE == <<DEFAULT_IGNORE_RE_1>>

\* {"messages":[]}
DEFAULT_IGNORE_1 ==
    <<"{", "\"", "m", "e", "s", "s", "a", "g", "e", "s", "\"", ":", "[", "]", "}">>

DEFAULT_IGNORE == <<DEFAULT_IGNORE_1>>

\* </messages>
XML_CLOSE ==
    <<"<", "/", "m", "e", "s", "s", "a", "g", "e", "s", ">">>

\* <?xml version='1.0' encoding='utf-8'?>
XML_DECL ==
    <<"<", "?", "x", "m", "l", " ", "v", "e", "r", "s", "i", "o", "n", "=", "'", "1", ".",
      "0", "'", " ", "e", "n", "c", "o", "d", "i", "n", "g", "=", "'", "u", "t", "f", "-",
      "8", "'", "?", ">">>

\* <messages xmlns="http://n.validator.nu/messages/">
XML_OPEN ==
    <<"<", "m", "e", "s", "s", "a", "g", "e", "s", " ", "x", "m", "l", "n", "s", "=", "\"",
      "h", "t", "t", "p", ":", "/", "/", "n", ".", "v", "a", "l", "i", "d", "a", "t", "o",
      "r", ".", "n", "u", "/", "m", "e", "s", "s", "a", "g", "e", "s", "/", "\"", ">">>

DEFAULT_IGNORE_XML == <<XML_CLOSE, XML_DECL, XML_OPEN>>

\* Picked up _JAVA_OPTIONS:
PICKED_UP_1 ==
    <<"P", "i", "c", "k", "e", "d", " ", "u", "p", " ", "_", "J", "A", "V", "A", "_", "O",
      "P", "T", "I", "O", "N", "S", ":">>

\* Picked up JAVA_TOOL_OPTIONS:
PICKED_UP_2 ==
    <<"P", "i", "c", "k", "e", "d", " ", "u", "p", " ", "J", "A", "V", "A", "_", "T", "O",
      "O", "L", "_", "O", "P", "T", "I", "O", "N", "S", ":">>

\* re.sub(STDERR_IGNORE_RE, '', stderr, flags=re.MULTILINE): every line that
\* starts with one of the two announcements goes, with its line break.
IsJavaCruft(l) ==
    StartsWith(l, PICKED_UP_1) \/ StartsWith(l, PICKED_UP_2)

StripJavaCruft(text) ==
    SelectSeq(text, LAMBDA l : ~IsJavaCruft(l))

-----------------------------------------------------------------------------
(* Validator._normalize_string, validator.py:113-116 *)

NormalizeString(s) ==
    [i \in 1..Len(s) |-> IF s[i] = LDQ \/ s[i] = RDQ THEN DQ ELSE s[i]]

NormalizeText(text) ==
    [i \in 1..Len(text) |-> NormalizeString(text[i])]

-----------------------------------------------------------------------------
(* Validator.__init__, validator.py:53-77 *)

\* Faulty variant of InitIgnore: the literals are stored as written, the
\* quote normalization of validator.py:76 left out.
InitIgnoreAsWritten(arg) ==
    arg \o DEFAULT_IGNORE

\* self.ignore after construction
InitIgnore(arg) ==
    LET withDefault == arg \o DEFAULT_IGNORE
    IN  [i \in 1..Len(withDefault) |-> NormalizeString(withDefault[i])]

\* self.ignore_re after construction
InitIgnoreRe(arg) ==
    LET withDefault == arg \o DEFAULT_IGNORE_RE
    IN  [i \in 1..Len(withDefault) |-> NormalizeString(withDefault[i])]

-----------------------------------------------------------------------------
(* Command line, validator.py:87-111 and 156-159.  An argument is a tuple  *)
(* of its parts, so that '-Xss{}k'.format(n) is <<"-Xss", n, "k">>.        *)

Arg(s) == <<s>>

\* Validator._java_options
JavaOptions(stackSize) ==
    IF stackSize # None THEN << <<"-Xss", stackSize, "k">> >> ELSE <<>>

\* Validator._vnu_options
VnuOptions(errorsOnly, detectLanguage, selfFormat, vnuArgs, formatParam) ==
    LET fmt == IF formatParam = None THEN selfFormat ELSE formatParam
    IN  (IF errorsOnly THEN <<Arg("--errors-only")>> ELSE <<>>)
        \o (IF ~detectLanguage THEN <<Arg("--no-langdetect")>> ELSE <<>>)
        \o (IF fmt # None THEN <<Arg("--format"), Arg(fmt)>> ELSE <<>>)
        \o vnuArgs

\* cmd of Validator._run_validator
Command(stackSize, errorsOnly, detectLanguage, selfFormat, vnuArgs, fileArgs, formatParam) ==
    <<Arg("java")>> \o JavaOptions(stackSize)
    \o <<Arg("-jar"), Arg("vnu.jar")>>
    \o VnuOptions(errorsOnly, detectLanguage, selfFormat, vnuArgs, formatParam)
    \o [i \in 1..Len(fileArgs) |-> Arg(fileArgs[i])]

-----------------------------------------------------------------------------
(* The checking engine (vnu.jar), the child process of _run_validator.     *)
(* Each file has the findings the engine reports for it; the engine writes *)
(* them to its error stream in the format its command line asks for.       *)

\* error
TYPE_ERROR ==
    <<"e", "r", "r", "o", "r">>

\* info
TYPE_INFO ==
    <<"i", "n", "f", "o">>

\* no doctype
MsgDoctype ==
    <<"n", "o", " ", "d", "o", "c", "t", "y", "p", "e">>

\* add (LDQ)lang(RDQ)
MsgLang ==
    <<"a", "d", "d", " ", LDQ, "l", "a", "n", "g", RDQ>>

\* Bad value (LDQ){"messages":[]}(RDQ)
MsgBadValue ==
    <<"B", "a", "d", " ", "v", "a", "l", "u", "e", " ", LDQ, "{", "\"", "m", "e", "s", "s",
      "a", "g", "e", "s", "\"", ":", "[", "]", "}", RDQ>>

FileNames == {"valid.html", "invalid.html", "warning.html", "badvalue.html"}

\* what the engine finds in a file
FindingsOf(f) ==
    CASE f = "valid.html" -> <<>>
      [] f = "invalid.html" -> <<[type |-> TYPE_ERROR, message |-> MsgDoctype]>>
      [] f = "warning.html" -> <<[type |-> TYPE_INFO, message |-> MsgLang]>>
      [] f = "badvalue.html" -> <<[type |-> TYPE_ERROR, message |-> MsgBadValue]>>

\* the value after the last --format of a command line; gnu when there is none
EngineFormat(c) ==
    LET at == {i \in 1..(Len(c) - 1) : c[i] = Arg("--format")}
    IN  IF at = {} THEN "gnu"
        ELSE c[(CHOOSE i \in at : \A j \in at : j <= i) + 1][1]

\* the findings the engine reports for a command line, in file order
EngineFindings(c) ==
    LET fileArgs == SelectSeq(c, LAMBDA a : Len(a) = 1 /\ a[1] \in FileNames)
        all == Flatten([i \in 1..Len(fileArgs) |-> FindingsOf(fileArgs[i][1])])
    IN  IF \E i \in 1..Len(c) : c[i] = Arg("--errors-only")
        THEN SelectSeq(all, LAMBDA m : m.type = TYPE_ERROR)
        ELSE all

\* "a.html":1.1: 
GnuPrefix ==
    <<"\"", "a", ".", "h", "t", "m", "l", "\"", ":", "1", ".", "1", ":", " ">>

\* : 
COLON_SPACE ==
    <<":", " ">>

\* <error>
XmlErrOpen ==
    <<"<", "e", "r", "r", "o", "r", ">">>

\* </error>
XmlErrClose ==
    <<"<", "/", "e", "r", "r", "o", "r", ">">>

\* <info>
XmlInfoOpen ==
    <<"<", "i", "n", "f", "o", ">">>

\* </info>
XmlInfoClose ==
    <<"<", "/", "i", "n", "f", "o", ">">>

\* {"messages":[
JsonHead ==
    <<"{", "\"", "m", "e", "s", "s", "a", "g", "e", "s", "\"", ":", "[">>

\* ]}
JsonTail ==
    <<"]", "}">>

\* {"type":"
JsonRecType ==
    <<"{", "\"", "t", "y", "p", "e", "\"", ":", "\"">>

\* ","message":"
JsonRecMessage ==
    <<"\"", ",", "\"", "m", "e", "s", "s", "a", "g", "e", "\"", ":", "\"">>

\* "}
JsonRecEnd ==
    <<"\"", "}">>

\* one line per finding: "file":line.col: type: message
GnuLine(m) ==
    GnuPrefix \o m.type \o COLON_SPACE \o m.message

XmlLine(m) ==
    IF m.type = TYPE_ERROR THEN XmlErrOpen \o m.message \o XmlErrClose
    ELSE XmlInfoOpen \o m.message \o XmlInfoClose

\* a JSON string's body: the double quote and the backslash are escaped
JsonEscape(s) ==
    Flatten([i \in 1..Len(s) |->
                IF s[i] = DQ \/ s[i] = "\\" THEN <<"\\", s[i]>> ELSE <<s[i]>>])

JsonRecord(m) ==
    JsonRecType \o JsonEscape(m.type) \o JsonRecMessage \o JsonEscape(m.message) \o JsonRecEnd

RECURSIVE JsonRecords(_)
JsonRecords(ms) ==
    IF ms = <<>> THEN <<>>
    ELSE IF Len(ms) = 1 THEN JsonRecord(ms[1])
    ELSE JsonRecord(ms[1]) \o <<",">> \o JsonRecords(Tail(ms))

\* the document {"messages":[...]} on one line
JsonDocument(ms) ==
    JsonHead \o JsonRecords(ms) \o JsonTail

\* the engine's own lines
EngineReport(fmt, ms) ==
    CASE fmt = "json" -> <<JsonDocument(ms)>>
      [] fmt = "xml" -> <<XML_DECL, XML_OPEN>> \o [i \in 1..Len(ms) |-> XmlLine(ms[i])]
                        \o <<XML_CLOSE>>
      [] OTHER -> [i \in 1..Len(ms) |-> GnuLine(ms[i])]

\* Picked up _JAVA_OPTIONS: -Xmx1g
CruftLine ==
    <<"P", "i", "c", "k", "e", "d", " ", "u", "p", " ", "_", "J", "A", "V", "A", "_", "O",
      "P", "T", "I", "O", "N", "S", ":", " ", "-", "X", "m", "x", "1", "g">>

\* What the runtime adds around the engine's lines: nothing, the JVM's
\* announcement that it picked up options from the environment, or an empty line.
Preambles == {"none", "cruft", "blank"}

\* the child's complete error stream
EngineStderr(c, pre) ==
    LET body == EngineReport(EngineFormat(c), EngineFindings(c))
    IN  CASE pre = "cruft" -> <<CruftLine>> \o body
          [] pre = "blank" -> body \o << <<>> >>
          [] OTHER -> body

-----------------------------------------------------------------------------
(* json.loads(stderr)['messages'], validator.py:234-235, for the documents *)
(* the engine writes: one line, an object whose "messages" member is an    *)
(* array of {"type": string, "message": string} objects.  Anything else is *)
(* a ValueError.                                                           *)

Expect(t, i, lit) ==
    i + Len(lit) - 1 <= Len(t) /\ \A k \in 1..Len(lit) : t[i + k - 1] = lit[k]

\* a string's body from position i to its closing quote
RECURSIVE JsonString(_, _, _)
JsonString(t, i, acc) ==
    IF i > Len(t) THEN [ok |-> FALSE, val |-> <<>>, next |-> i]
    ELSE IF t[i] = DQ THEN [ok |-> TRUE, val |-> acc, next |-> i]
    ELSE IF t[i] = "\\"
         THEN IF i + 1 <= Len(t) /\ (t[i + 1] = DQ \/ t[i + 1] = "\\")
              THEN JsonString(t, i + 2, Append(acc, t[i + 1]))
              ELSE [ok |-> FALSE, val |-> <<>>, next |-> i]
    ELSE JsonString(t, i + 1, Append(acc, t[i]))

\* the records of the array from position i; ok only if the document ends after it
RECURSIVE JsonArray(_, _, _)
JsonArray(t, i, acc) ==
    LET bad == [ok |-> FALSE, messages |-> <<>>]
    IN  IF ~Expect(t, i, JsonRecType) THEN bad
        ELSE LET ty == JsonString(t, i + Len(JsonRecType), <<>>)
             IN  IF ~ty.ok \/ ~Expect(t, ty.next, JsonRecMessage) THEN bad
                 ELSE LET msg == JsonString(t, ty.next + Len(JsonRecMessage), <<>>)
                          rec == [type |-> ty.val, message |-> msg.val]
                          after == msg.next + Len(JsonRecEnd)
                      IN  IF ~msg.ok \/ ~Expect(t, msg.next, JsonRecEnd) THEN bad
                          ELSE IF Expect(t, after, JsonTail)
                                  /\ after + Len(JsonTail) - 1 = Len(t)
                               THEN [ok |-> TRUE, messages |-> Append(acc, rec)]
                          ELSE IF Expect(t, after, <<",">>)
                               THEN JsonArray(t, after + 1, Append(acc, rec))
                          ELSE bad

JsonLoadsMessages(text) ==
    LET docs == SelectSeq(text, LAMBDA l : l # <<>>)
        t == docs[1]
    IN  IF Len(docs) # 1 \/ ~Expect(t, 1, JsonHead) THEN [ok |-> FALSE, messages |-> <<>>]
        ELSE IF Expect(t, Len(JsonHead) + 1, JsonTail)
                /\ Len(JsonHead) + Len(JsonTail) = Len(t)
             THEN [ok |-> TRUE, messages |-> <<>>]
        ELSE JsonArray(t, Len(JsonHead) + 1, <<>>)

-----------------------------------------------------------------------------
(* re.compile(i).search(l), validator.py:204-205, for the patterns in use: *)
(* an optional leading \A, then literal characters, "." and "x*".          *)

AtomMatches(a, c) ==
    a = "." \/ a = c

\* p from position i matches l from position j on
RECURSIVE ReMatchHere(_, _, _, _)
ReMatchHere(p, i, l, j) ==
    IF i > Len(p) THEN TRUE
    ELSE IF i < Len(p) /\ p[i + 1] = "*"
         THEN \E k \in 0..(Len(l) - j + 1) :
                 /\ \A t \in j..(j + k - 1) : AtomMatches(p[i], l[t])
                 /\ ReMatchHere(p, i + 2, l, j + k)
    ELSE j <= Len(l) /\ AtomMatches(p[i], l[j]) /\ ReMatchHere(p, i + 1, l, j + 1)

ReSearch(p, l) ==
    IF Len(p) >= 2 /\ p[1] = "\\" /\ p[2] = "A"
    THEN ReMatchHere(SubSeq(p, 3, Len(p)), 1, l, 1)
    ELSE \E s \in 1..(Len(l) + 1) : ReMatchHere(p, 1, l, s)

-----------------------------------------------------------------------------
(* Validator._run_validator, validator.py:151-184 *)

\* the Validator object as a record
Self ==
    [ignore |-> ignore, ignore_re |-> ignore_re, format |-> format,
     errors_only |-> errors_only, detect_language |-> detect_language,
     stack_size |-> stack_size, vnu_args |-> vnu_args]

\* how subprocess.Popen can end: the child ran, or OSError with this errno
LaunchOutcomes == {"ok", "ENOENT", "EACCES"}

JAVA_NOT_FOUND_STR ==
    "Missing Java Runtime Environment on this system. The command \"java\" must be available."

\* The except OSError clause.  Evaluating os.errno.ENOENT needs the os module
\* to expose errno, which it does up to Python 3.6 and not from 3.7 on; there
\* the handler itself fails with AttributeError.
HandleOSError(errno, hasErrno) ==
    IF ~hasErrno THEN <<"AttributeError">>
    ELSE IF errno = "ENOENT" THEN <<"JavaNotFoundException", JAVA_NOT_FOUND_STR>>
    ELSE <<"OSError", errno>>

\* Faulty variant of QuoteNormalized: the text is normalized whatever the format.
QuoteNormalizedAlways(formatParam, text) ==
    NormalizeText(text)

\* if format != 'json': stderr = self._normalize_string(stderr)
QuoteNormalized(formatParam, text) ==
    IF formatParam # "json" THEN NormalizeText(text) ELSE text

RunValidator(self, hasErrno, fileArgs, formatParam, la, pre) ==
    LET c == Command(self.stack_size, self.errors_only, self.detect_language,
                     self.format, self.vnu_args, fileArgs, formatParam)
        raw == EngineStderr(c, pre)
    IN  IF la # "ok"
        THEN [kind |-> "raise", exc |-> HandleOSError(la, hasErrno), cmd |-> c,
              raw |-> <<>>, text |-> <<>>]
        ELSE [kind |-> "ok", exc |-> <<>>, cmd |-> c, raw |-> raw,
              text |-> QuoteNormalized(formatParam, StripJavaCruft(raw))]

-----------------------------------------------------------------------------
(* The filtering step of Validator.validate, validator.py:190-205 *)

\* e = stderr.splitlines(); e = list(filter(None, e))
SplitNonEmpty(text) ==
    SelectSeq(text, LAMBDA l : l # <<>>)

\* Faulty variant of XmlOverride: the threshold one too low, so that the
\* three-line envelope no longer triggers the override.
XmlOverrideBelowThree(selfFormat, e) ==
    selfFormat = "xml" /\ Len(e) < 3

\* Faulty variant of XmlOverride: the threshold one too high, so that an
\* envelope with one finding triggers the override.
XmlOverrideBelowFive(selfFormat, e) ==
    selfFormat = "xml" /\ Len(e) < 5

\* if self.format == "xml" and len(e) < 4
XmlOverride(selfFormat, e) ==
    selfFormat = "xml" /\ Len(e) < 4

\* for i in self.ignore: e = [l for l in e if i not in l]
RECURSIVE DropLiterals(_, _)
DropLiterals(e, ign) ==
    IF ign = <<>> THEN e
    ELSE DropLiterals(SelectSeq(e, LAMBDA l : ~Contains(l, Head(ign))), Tail(ign))

\* for i in self.ignore_re: e = [l for l in e if not regex.search(l)]
RECURSIVE DropPatterns(_, _)
DropPatterns(e, ignRe) ==
    IF ignRe = <<>> THEN e
    ELSE DropPatterns(SelectSeq(e, LAMBDA l : ~ReSearch(Head(ignRe), l)), Tail(ignRe))

\* the lines before filtering, self.ignore as the call leaves it, the lines left
FilterStep(self, text) ==
    LET e == SplitNonEmpty(text)
        ign == IF XmlOverride(self.format, e) THEN DEFAULT_IGNORE_XML ELSE self.ignore
    IN  [e0 |-> e, ignore |-> ign,
         lines |-> DropPatterns(DropLiterals(e, ign), self.ignore_re)]

\* Validator.get_messages on the text of a successful run
ParseMessages(text) ==
    JsonLoadsMessages(text)

-----------------------------------------------------------------------------
(* Arguments of the calls *)

MaxFiles == 2

\* the file lists handed to validate and get_messages
FileSets ==
    UNION {[1..n -> FileNames] : n \in 1..MaxFiles}

\* (LDQ)lang(RDQ)
LitLang ==
    <<LDQ, "l", "a", "n", "g", RDQ>>

\* "lang"
LitLangAscii ==
    <<"\"", "l", "a", "n", "g", "\"">>

\* doctype
LitDoctype ==
    <<"d", "o", "c", "t", "y", "p", "e">>

\* (LDQ)l.*g(RDQ)
ReLang ==
    <<LDQ, "l", ".", "*", "g", RDQ>>

\* \A<error
ReError ==
    <<"\\", "A", "<", "e", "r", "r", "o", "r">>

\* the constructor's ignore and ignore_re arguments (None and [] both give
\* the empty list)
CtorArgs ==
    {<< <<>>, <<>> >>,
     << <<LitLang>>, <<>> >>,
     << <<LitDoctype, LitLangAscii>>, <<ReLang>> >>,
     << <<>>, <<ReError>> >>,
     << <<LitLang>>, <<ReError>> >>}

Formats == {None, "gnu", "xml", "text", "json"}

\* errors_only, detect_language, stack_size, vnu_args
OptionSets ==
    {<<FALSE, TRUE, None, <<>> >>, <<TRUE, FALSE, "512", <<Arg("--verbose")>> >>}

NoResult == [kind |-> "none", count |-> 0, messages |-> <<>>, exc |-> <<>>]

-----------------------------------------------------------------------------
(* State machine of one Validator *)

CallIdle ==
    /\ pc = "idle" /\ op = "none" /\ callFiles = <<>> /\ preamble = "none"
    /\ launch = "none" /\ cmd = <<>> /\ engineStderr = <<>> /\ stderrRet = <<>>
    /\ e0 = <<>> /\ lines = <<>> /\ result = NoResult

FilesParked ==
    /\ wpc = "parked" /\ directory = <<>> /\ match = <<>> /\ blacklist = <<>>
    /\ skip_invisible = TRUE /\ walkStack = <<>> /\ visited = <<>> /\ files = <<>>

\* Validator(ignore=..., ignore_re=..., errors_only=..., format=..., ...)
Init ==
    /\ \E a \in CtorArgs : ignoreArg = a[1] /\ ignoreReArg = a[2]
    /\ ignore = InitIgnore(ignoreArg)
    /\ ignore_re = InitIgnoreRe(ignoreReArg)
    /\ format \in Formats
    /\ \E o \in OptionSets :
          /\ errors_only = o[1] /\ detect_language = o[2]
          /\ stack_size = o[3] /\ vnu_args = o[4]
    /\ osHasErrno \in BOOLEAN
    /\ CallIdle
    /\ FilesParked

\* num_errors = v.validate(files)
Validate ==
    /\ pc = "idle"
    /\ \E fs \in FileSets, la \in LaunchOutcomes, pre \in Preambles :
          LET run == RunValidator(Self, osHasErrno, fs, None, la, pre)
              f == FilterStep(Self, run.text)
          IN  /\ callFiles' = fs
              /\ launch' = la
              /\ preamble' = IF la = "ok" THEN pre ELSE "none"
              /\ cmd' = run.cmd
              /\ engineStderr' = run.raw
              /\ stderrRet' = run.text
              /\ IF run.kind = "raise"
                 THEN /\ result' = [NoResult EXCEPT !.kind = "raise", !.exc = run.exc]
                      /\ UNCHANGED <<ignore, e0, lines>>
                 ELSE /\ ignore' = f.ignore
                      /\ e0' = f.e0
                      /\ lines' = f.lines
                      /\ result' = [NoResult EXCEPT !.kind = "count", !.count = Len(f.lines)]
    /\ pc' = "returned"
    /\ op' = "validate"
    /\ UNCHANGED <<ignore_re, format, errors_only, detect_language, stack_size, vnu_args,
                   ignoreArg, ignoreReArg, osHasErrno, filesVars>>

\* messages = v.get_messages(files)
GetMessages ==
    /\ pc = "idle"
    /\ \E fs \in FileSets, la \in LaunchOutcomes, pre \in Preambles :
          LET run == RunValidator(Self, osHasErrno, fs, "json", la, pre)
              parsed == ParseMessages(run.text)
          IN  /\ callFiles' = fs
              /\ launch' = la
              /\ preamble' = IF la = "ok" THEN pre ELSE "none"
              /\ cmd' = run.cmd
              /\ engineStderr' = run.raw
              /\ stderrRet' = run.text
              /\ result' = IF run.kind = "raise"
                           THEN [NoResult EXCEPT !.kind = "raise", !.exc = run.exc]
                           ELSE IF ~parsed.ok
                           THEN [NoResult EXCEPT !.kind = "raise", !.exc = <<"ValueError">>]
                           ELSE [NoResult EXCEPT !.kind = "messages",
                                                 !.messages = parsed.messages]
    /\ pc' = "returned"
    /\ op' = "get_messages"
    /\ UNCHANGED <<ignore, ignore_re, format, errors_only, detect_language, stack_size,
                   vnu_args, ignoreArg, ignoreReArg, osHasErrno, e0, lines, filesVars>>

\* the caller takes the result (or the exception) and goes on
Return ==
    /\ pc = "returned"
    /\ pc' = "idle" /\ op' = "none" /\ callFiles' = <<>> /\ preamble' = "none"
    /\ launch' = "none" /\ cmd' = <<>> /\ engineStderr' = <<>> /\ stderrRet' = <<>>
    /\ e0' = <<>> /\ lines' = <<>> /\ result' = NoResult
    /\ UNCHANGED <<ignore, ignore_re, format, errors_only, detect_language, stack_size,
                   vnu_args, ignoreArg, ignoreReArg, osHasErrno, filesVars>>

Next ==
    \/ Validate
    \/ GetMessages
    \/ Return

Spec == Init /\ [][Next]_vars

-----------------------------------------------------------------------------
(* Validator.all_files, validator.py:122-149.  A path is the sequence of   *)
(* its components; os.path.join(root, name) appends one.                   *)

\* w
DirW ==
    <<"w">>

\* sub
DirSub ==
    <<"s", "u", "b">>

\* skip
DirSkip ==
    <<"s", "k", "i", "p">>

\* .git
DirGit ==
    <<".", "g", "i", "t">>

\* a.html
NameA ==
    <<"a", ".", "h", "t", "m", "l">>

\* b.html
NameB ==
    <<"b", ".", "h", "t", "m", "l">>

\* .c.html
NameHidden ==
    <<".", "c", ".", "h", "t", "m", "l">>

\* d.css
NameCss ==
    <<"d", ".", "c", "s", "s">>

\* *.html
DefaultMatch ==
    <<"*", ".", "h", "t", "m", "l">>

\* a*
PatAStar ==
    <<"a", "*">>

\* ?.css
PatQ ==
    <<"?", ".", "c", "s", "s">>

\* The directory tree on disk: what os.walk lists in each directory.
\*   w/        a.html .c.html d.css
\*   w/sub/    b.html
\*   w/sub/skip/   b.html d.css
\*   w/skip/   a.html
\*   w/.git/   a.html
Listing(path) ==
    CASE path = <<DirW>> ->
            [dirs |-> <<DirSub, DirSkip, DirGit>>, files |-> <<NameA, NameHidden, NameCss>>]
      [] path = <<DirW, DirSub>> ->
            [dirs |-> <<DirSkip>>, files |-> <<NameB>>]
      [] path = <<DirW, DirSub, DirSkip>> ->
            [dirs |-> <<>>, files |-> <<NameB, NameCss>>]
      [] path = <<DirW, DirSkip>> ->
            [dirs |-> <<>>, files |-> <<NameA>>]
      [] path = <<DirW, DirGit>> ->
            [dirs |-> <<>>, files |-> <<NameA>>]

\* the directory argument
Directories == {<<DirW>>, <<DirW, DirSub>>, <<DirW, DirSkip>>}

\* the match argument: one glob, or a list of globs
MatchArgs ==
    {[isList |-> FALSE, value |-> DefaultMatch],
     [isList |-> TRUE, value |-> <<DefaultMatch>>],
     [isList |-> TRUE, value |-> <<DefaultMatch, PatQ>>],
     [isList |-> TRUE, value |-> <<DefaultMatch, PatAStar>>],
     [isList |-> TRUE, value |-> <<PatQ, PatQ>>]}

\* the blacklist argument (None gives the empty list)
Blacklists == {<<>>, <<DirSkip>>, <<DirSub, DirSkip>>, <<DirGit, DirSkip, DirSkip>>}

\* if not isinstance(match, list): match = [match]
MatchList(m) ==
    IF ~m.isList THEN <<m.value>> ELSE m.value

\* fnmatch: "*" is any run of characters, "?" any one character
RECURSIVE GlobMatch(_, _, _, _)
GlobMatch(p, i, n, j) ==
    IF i > Len(p) THEN j > Len(n)
    ELSE IF p[i] = "*" THEN \E k \in j..(Len(n) + 1) : GlobMatch(p, i + 1, n, k)
    ELSE j <= Len(n) /\ (p[i] = "?" \/ p[i] = n[j]) /\ GlobMatch(p, i + 1, n, j + 1)

\* fnmatch.filter(filenames, pattern)
FnmatchFilter(filenames, pattern) ==
    SelectSeq(filenames, LAMBDA n : GlobMatch(pattern, 1, n, 1))

\* list.remove(b): the first occurrence goes
RECURSIVE ListRemove(_, _)
ListRemove(l, b) ==
    IF l = <<>> THEN <<>>
    ELSE IF Head(l) = b THEN Tail(l)
    ELSE <<Head(l)>> \o ListRemove(Tail(l), b)

\* Faulty variant of RemoveBlacklisted: the loop stops after the first
\* blacklist entry.
RemoveFirstBlacklisted(dirnames, bl) ==
    IF bl = <<>> THEN dirnames ELSE ListRemove(dirnames, Head(bl))

\* for b in blacklist: if b in dirnames: dirnames.remove(b)
RECURSIVE RemoveBlacklisted(_, _)
RemoveBlacklisted(dirnames, bl) ==
    IF bl = <<>> THEN dirnames
    ELSE RemoveBlacklisted(ListRemove(dirnames, Head(bl)), Tail(bl))

\* the directory names os.walk goes on to after the loop body has edited them
PrunedDirnames(dirnames, bl, skipInvisible) ==
    LET kept == RemoveBlacklisted(dirnames, bl)
    IN  IF skipInvisible THEN SelectSeq(kept, LAMBDA d : d[1] # ".") ELSE kept

\* the paths one directory adds to files, pattern by pattern
RECURSIVE MatchedFiles(_, _, _, _)
MatchedFiles(root, filenames, patterns, skipInvisible) ==
    IF patterns = <<>> THEN <<>>
    ELSE LET hit == FnmatchFilter(filenames, Head(patterns))
             kept == SelectSeq(hit, LAMBDA n : ~(skipInvisible /\ n[1] = "."))
         IN  [i \in 1..Len(kept) |-> Append(root, kept[i])]
             \o MatchedFiles(root, filenames, Tail(patterns), skipInvisible)

ValidatorParked ==
    /\ ignore = <<>> /\ ignore_re = <<>> /\ format = None /\ errors_only = FALSE
    /\ detect_language = TRUE /\ stack_size = None /\ vnu_args = <<>>
    /\ ignoreArg = <<>> /\ ignoreReArg = <<>> /\ osHasErrno = TRUE
    /\ pc = "parked" /\ op = "none" /\ callFiles = <<>> /\ preamble = "none"
    /\ launch = "none" /\ cmd = <<>> /\ engineStderr = <<>> /\ stderrRet = <<>>
    /\ e0 = <<>> /\ lines = <<>> /\ result = NoResult

InitFiles ==
    /\ ValidatorParked
    /\ wpc = "idle" /\ directory = <<>> /\ match = <<>> /\ blacklist = <<>>
    /\ skip_invisible = TRUE /\ walkStack = <<>> /\ visited = <<>> /\ files = <<>>

\* v.all_files(directory, match, blacklist, skip_invisible): up to the loop
AllFiles ==
    /\ wpc \in {"idle", "returned"}
    /\ directory' \in Directories
    /\ \E m \in MatchArgs : match' = MatchList(m)
    /\ blacklist' \in Blacklists
    /\ skip_invisible' \in BOOLEAN
    /\ walkStack' = <<directory'>>
    /\ visited' = <<>>
    /\ files' = <<>>
    /\ wpc' = "walking"
    /\ UNCHANGED validatorVars

\* one iteration of "for root, dirnames, filenames in os.walk(directory)"
WalkStep ==
    /\ wpc = "walking"
    /\ walkStack # <<>>
    /\ LET root == Head(walkStack)
           here == Listing(root)
           dirnames == PrunedDirnames(here.dirs, blacklist, skip_invisible)
       IN  /\ files' = files \o MatchedFiles(root, here.files, match, skip_invisible)
           /\ visited' = Append(visited, root)
           /\ walkStack' = [i \in 1..Len(dirnames) |-> Append(root, dirnames[i])]
                           \o Tail(walkStack)
    /\ UNCHANGED <<wpc, directory, match, blacklist, skip_invisible, validatorVars>>

\* return files
AllFilesReturn ==
    /\ wpc = "walking"
    /\ walkStack = <<>>
    /\ wpc' = "returned"
    /\ UNCHANGED <<directory, match, blacklist, skip_invisible, walkStack, visited, files,
                   validatorVars>>

NextFiles ==
    \/ AllFiles
    \/ WalkStep
    \/ AllFilesReturn

SpecFiles == InitFiles /\ [][NextFiles]_vars

-----------------------------------------------------------------------------
(* Properties *)

ValidateReturned ==
    pc = "returned" /\ op = "validate" /\ result.kind = "count"

GetMessagesReturned ==
    pc = "returned" /\ op = "get_messages"

\* C1: the XML envelope override lasts for one validate call only: after every
\* call self.ignore is the list the constructor built (the normalized literals
\* of the caller followed by the default), and so the count validate returns
\* is the count a freshly constructed Validator returns for the same output.
C1_IgnoreRestoredAfterCall ==
    pc = "returned" =>
        /\ ignore = InitIgnore(ignoreArg)
        /\ ValidateReturned =>
              result.count =
                 Len(FilterStep([Self EXCEPT !.ignore = InitIgnore(ignoreArg)],
                                stderrRet).lines)

\* the output without its empty lines is the clean envelope
CleanEnvelope == <<XML_DECL, XML_OPEN, XML_CLOSE>>

\* C2: with format xml, when the engine's output without its empty lines is
\* exactly the three-line clean envelope, validate returns 0, whatever ignore
\* literals and patterns the Validator was given.
C2_CleanXmlEnvelopeCountsZero ==
    (ValidateReturned /\ format = "xml" /\ e0 = CleanEnvelope) => result.count = 0

C2_Witness ==
    /\ ValidateReturned /\ format = "xml" /\ e0 = CleanEnvelope
    /\ ignoreArg # <<>> /\ ignoreReArg # <<>>
    /\ result.count = 0

\* no line of L contains a configured literal or is matched by a configured pattern
NoConfiguredRuleMatches(L) ==
    \A i \in 1..Len(L) :
        /\ \A r \in 1..Len(InitIgnore(ignoreArg)) : ~Contains(L[i], InitIgnore(ignoreArg)[r])
        /\ \A r \in 1..Len(ignore_re) : ~ReSearch(ignore_re[r], L[i])

\* the filtering step applied again, by the same Validator, to the lines it left
Refiltered ==
    FilterStep(Self, lines).lines

\* C3 as claimed: for every configuration, filtering the lines validate's
\* filtering step left, none of which matches a configured rule, returns the
\* same lines.
C3_FilteringIdempotent ==
    (ValidateReturned /\ NoConfiguredRuleMatches(lines)) => Refiltered = lines

\* C3: filtering the lines validate's filtering step left, none of which
\* matches a configured rule, returns the same lines and the same count,
\* except when the format is xml and the step took an output of at least 4
\* lines to fewer than 4 (the second pass then applies the envelope override).
C3_FilteringIdempotentOutsideOverride ==
    (/\ ValidateReturned
     /\ NoConfiguredRuleMatches(lines)
     /\ ~(format = "xml" /\ Len(e0) >= 4 /\ Len(lines) < 4))
    => (Refiltered = lines /\ Len(Refiltered) = result.count)

C3_Witness ==
    /\ ValidateReturned /\ NoConfiguredRuleMatches(lines)
    /\ format = "xml" /\ Len(lines) >= 4 /\ Len(lines) < Len(e0)
    /\ Refiltered = lines

\* a Validator constructed with no arguments
DefaultConfigured ==
    /\ ignoreArg = <<>> /\ ignoreReArg = <<>> /\ format = None
    /\ ~errors_only /\ detect_language /\ stack_size = None /\ vnu_args = <<>>

\* what get_messages returns for the files of the call at hand
MessagesForSameFiles ==
    ParseMessages(RunValidator(Self, osHasErrno, callFiles, "json", "ok", preamble).text)

\* C4: with a default Validator, the count validate returns equals the length
\* of the sequence get_messages returns for the same files: 0 and the empty
\* sequence when the engine has no findings, otherwise a positive count and a
\* sequence of that length.
C4_CountEqualsMessageCount ==
    (ValidateReturned /\ DefaultConfigured) =>
        /\ MessagesForSameFiles.ok
        /\ result.count = Len(MessagesForSameFiles.messages)
        /\ (result.count = 0) = (EngineFindings(cmd) = <<>>)

ConfigVars ==
    <<ignore, ignore_re, format, errors_only, detect_language, stack_size, vnu_args>>

\* the values following a --format on a command line
FormatArgs(c) ==
    {c[i + 1] : i \in {j \in 1..(Len(c) - 1) : c[j] = Arg("--format")}}

C5_JsonForcedAndUnfiltered ==
    GetMessagesReturned =>
        /\ FormatArgs(cmd) = {Arg("json")}
        /\ launch = "ok" =>
              /\ result.kind = "messages"
              /\ result.messages = EngineFindings(cmd)

\* C5: get_messages always runs the engine with --format json, whatever
\* format the Validator was configured with, returns the engine's messages
\* array unchanged in content and order (no ignore literal or pattern removes
\* a record), and leaves the Validator's configuration unchanged.
C5_GetMessages ==
    /\ []C5_JsonForcedAndUnfiltered
    /\ [][op' = "get_messages" => UNCHANGED ConfigVars]_vars

C5_Witness ==
    /\ GetMessagesReturned /\ format = "xml" /\ ignoreArg = <<LitLang>>
    /\ preamble = "cruft"
    /\ Len(result.messages) = 2
    /\ \E i \in 1..2 : result.messages[i].message = MsgLang

\* the literals in effect in the call at hand, as they were written
ActiveLiteralsAsWritten ==
    IF ignore = DEFAULT_IGNORE_XML THEN DEFAULT_IGNORE_XML ELSE ignoreArg \o DEFAULT_IGNORE

PatternsAsWritten ==
    ignoreReArg \o DEFAULT_IGNORE_RE

\* D is dropped by a rule: quote-normalized D against the quote-normalized rule
DroppedUpToQuotes(D) ==
    \/ \E r \in 1..Len(ActiveLiteralsAsWritten) :
          Contains(NormalizeString(D), NormalizeString(ActiveLiteralsAsWritten[r]))
    \/ \E r \in 1..Len(PatternsAsWritten) :
          ReSearch(NormalizeString(PatternsAsWritten[r]), NormalizeString(D))

\* C7: in validate with a format other than json, a line of the engine is
\* dropped exactly when its quote-normalized form is dropped by the
\* quote-normalized form of a rule in effect, so that writing a typographic
\* quote for an ASCII one (or the reverse) in a rule or in a line never
\* changes the lines left nor their count.
C7_QuotesEquivalent ==
    (ValidateReturned /\ format # "json") =>
        LET D == SplitNonEmpty(StripJavaCruft(engineStderr))
            kept == SelectSeq(D, LAMBDA l : ~DroppedUpToQuotes(l))
        IN  /\ lines = NormalizeText(kept)
            /\ result.count = Len(kept)

C7_Witness ==
    /\ ValidateReturned /\ format = "gnu"
    /\ \E r \in 1..Len(ignoreArg) : \E k \in 1..Len(ignoreArg[r]) : ignoreArg[r][k] = LDQ
    /\ \E i \in 1..Len(engineStderr) : Contains(engineStderr[i], LitLang)
    /\ Len(engineStderr) = 2
    /\ result.count = 1

\* C8: when the child cannot be started because java is absent (ENOENT),
\* validate and get_messages raise JavaNotFoundException with its fixed
\* message; every other launch failure reaches the caller unchanged; either
\* way nothing is returned.
C8_LaunchFailures ==
    pc = "returned" =>
        /\ launch = "ENOENT" =>
              /\ result.kind = "raise"
              /\ result.exc = <<"JavaNotFoundException", JAVA_NOT_FOUND_STR>>
        /\ launch = "EACCES" =>
              /\ result.kind = "raise"
              /\ result.exc = <<"OSError", "EACCES">>

\* the format the engine was run with: the value after --format, if any
FormatInEffect(c) ==
    IF FormatArgs(c) = {} THEN None ELSE (CHOOSE a \in FormatArgs(c) : TRUE)[1]

\* C9: the text an engine run returns is quote-normalized exactly when the
\* format in effect for that run is not json: untouched for json (forced by
\* get_messages or configured and used by validate), every typographic
\* double quote replaced by the ASCII one otherwise.
C9_NormalizedIffNotJson ==
    (pc = "returned" /\ launch = "ok") =>
        stderrRet = IF FormatInEffect(cmd) = "json"
                    THEN StripJavaCruft(engineStderr)
                    ELSE NormalizeText(StripJavaCruft(engineStderr))

-----------------------------------------------------------------------------
(* Properties of all_files *)

BlacklistedNames == {blacklist[i] : i \in 1..Len(blacklist)}

\* C6 as claimed: whatever the tree, the directory argument, the patterns and
\* skip_invisible, no directory all_files walks has a blacklisted name and no
\* path it returns lies beneath a directory with a blacklisted name.
C6_NothingBeneathBlacklisted ==
    /\ \A i \in 1..Len(files) :
          \A k \in 1..(Len(files[i]) - 1) : files[i][k] \notin BlacklistedNames
    /\ \A i \in 1..Len(visited) :
          \A k \in 1..Len(visited[i]) : visited[i][k] \notin BlacklistedNames

\* C6: below the directory it is given, all_files walks no directory with a
\* blacklisted name and returns no path beneath one; the components of the
\* directory argument itself are not looked at.
C6_NothingBeneathBlacklistedBelowRoot ==
    /\ \A i \in 1..Len(files) :
          \A k \in (Len(directory) + 1)..(Len(files[i]) - 1) :
             files[i][k] \notin BlacklistedNames
    /\ \A i \in 1..Len(visited) :
          \A k \in (Len(directory) + 1)..Len(visited[i]) :
             visited[i][k] \notin BlacklistedNames

C6_Witness ==
    /\ wpc = "returned" /\ directory = <<DirW>> /\ ~skip_invisible
    /\ DirSkip \in BlacklistedNames /\ DirSub \notin BlacklistedNames
    /\ Len(visited) = 2
    /\ Len(files) > 0

\* C10: all_files returns a set: whatever the patterns (overlapping or
\* repeated ones included), no path occurs twice in the sequence it returns.
C10_NoDuplicatePaths ==
    wpc = "returned" =>
        \A i, j \in 1..Len(files) : i # j => files[i] # files[j]

====
